---- MODULE Spec2Model ----
(***************************************************************************)
(* Telecom licensing back office (Django): the webhook delivery engine     *)
(* (api_integration), the Request lifecycle (demandes) and the Title       *)
(* lifecycle (titres), with the post_save receivers that tie them.         *)
(*                                                                         *)
(* Time is counted in minutes.  Every handler is one action: a view, a    *)
(* periodic task or a service call runs to completion, its HTTP exchange   *)
(* included, before the next handler starts.                               *)
(***************************************************************************)
EXTENDS Integers, Sequences, FiniteSets, TLC

(***************************************************************************)
(* Bounds of the model.                                                    *)
(***************************************************************************)
MaxDeliveries == 3      \* rows of WebhookDelivery
MaxTime == 1            \* minutes the clock advances
MaxAdminEdits == 1      \* change-form saves of the Django admin
MaxOccurrences == 2     \* event occurrences fired
MaxDemandes == 1        \* rows of Demande whose lifecycle is followed
MaxHistorique == 3      \* rows of HistoriqueDemande
MaxSignalled == 1       \* rows of WebhookDelivery written for saves of a Demande
MaxDay == 1             \* days the calendar advances
MaxTitres == 1          \* rows of Titre whose lifecycle is followed
MaxNumbered == 3        \* rows of a table when only creations are followed
MaxHistoriqueTitre == 3 \* rows of HistoriqueTitre
MaxFeeTitres == 2       \* rows of Titre when the fee records are followed
MaxNotifications == 2   \* rows of Notification written by single calls
MaxReminders == 3       \* rows of Notification written by the periodic jobs

(***************************************************************************)
(* Program constants.                                                      *)
(***************************************************************************)
Null == -1                      \* NULL of a nullable column
NetErr == 0                     \* requests.exceptions.RequestException: no response
DefaultMaxAttempts == 3         \* WebhookDelivery.max_attempts default
HttpCodes == {200, 299, 300}
Responses == HttpCodes \cup {NetErr}

Events == {"titre.updated", "demande.updated", "test.webhook"}
DeliveryStatuses == {"pending", "success", "failed", "retry"}
WebhookIds == {1, 2, 3}

\* The apps whose post_save receivers run on a save of a Titre or a
\* Demande.  "models" is the app that owns the saved model (titres or
\* demandes).  Django calls the receivers in the order the apps connected
\* them, which is the order of INSTALLED_APPS.
Apps == {"models", "notifications", "api_integration"}
AppOrders ==
    { o \in [1..3 -> Apps] : \A a \in Apps : \E k \in 1..3 : o[k] = a }

DaysPerYear == 365
Year(day) == day \div DaysPerYear

TitreTypes == {"licence_type_1", "recepisse"}
TypeCode(type) ==
    IF type = "licence_type_1" THEN "LT1"
    ELSE IF type = "licence_type_2" THEN "LT2"
    ELSE IF type = "agrement_vendeurs" THEN "AGV"
    ELSE IF type = "agrement_installateurs" THEN "AGI"
    ELSE IF type = "concessions" THEN "CON"
    ELSE IF type = "recepisse" THEN "REC"
    ELSE "UNK"

Workers == {1, 2}

\* One operator, owner of the titles and author of the requests, and the
\* users whose profile has the role admin or personnel.
Staff == {"admin", "personnel"}
Users == {"operateur"} \cup Staff

VARIABLES
    webhooks,       \* Webhook table: id -> row
    deliveries,     \* WebhookDelivery table, in creation order (index = id)
    now,            \* timezone.now(), in minutes
    posts,          \* per webhook, the requests.post calls made to its url
    occurrences,    \* event occurrences fired so far (the payload identifies one)
    adminEdits,     \* change-form saves made so far
    demandes,       \* Demande table: index = id
    historique,     \* HistoriqueDemande table, in creation order
    today,          \* date.today(), in days since 1 January of year 0
    titres,         \* Titre table: index = id
    historiqueTitre,\* HistoriqueTitre table, in creation order
    redevances,     \* RedevanceTitre table, in creation order
    inflight,       \* per worker, the creation it is in the middle of
    outcome,        \* how the last request ended: ok, refused (400), or the
                    \* exception that left the handler
    appOrder,       \* the order in which the apps connected their receivers
    notifications,  \* Notification table, in creation order
    preferences,    \* NotificationPreference: user -> flags, <<>> where missing
    mails,          \* the messages send_mail has delivered
    returned        \* what the last call of create_notification returned

whVars == <<webhooks, deliveries, now, posts, occurrences, adminEdits>>
demVars == <<demandes, historique, today>>
titVars == <<titres, historiqueTitre, redevances>>
envVars == <<inflight, outcome, appOrder>>
notVars == <<notifications, preferences, mails, returned>>
vars == <<webhooks, deliveries, now, posts, occurrences, adminEdits,
          demandes, historique, today, titres, historiqueTitre, redevances,
          inflight, outcome, appOrder,
          notifications, preferences, mails, returned>>

(***************************************************************************)
(* Webhook rows.  The subscriptions are fixed; webhook 3 starts in one of  *)
(* the states the Webhook form can give it.                                *)
(***************************************************************************)
Subscriptions ==
    (1 :> {"titre.updated", "demande.updated", "test.webhook"}) @@
    (2 :> {"titre.updated"}) @@
    (3 :> {"titre.updated", "demande.updated"})

\* Webhook.secret (blank=True): webhook 2 has none.
Secrets == (1 :> "k1") @@ (2 :> "") @@ (3 :> "k3")

WebhookRow(evs, active, st, secret) ==
    [events |-> evs, is_active |-> active, status |-> st, secret |-> secret,
     success_count |-> 0, failure_count |-> 0]

WebhookTables ==
    { [w \in WebhookIds |->
          IF w = 3 THEN WebhookRow(Subscriptions[w], c[1], c[2], Secrets[w])
                   ELSE WebhookRow(Subscriptions[w], TRUE, "active", Secrets[w])] :
      c \in {<<FALSE, "active">>, <<TRUE, "inactive">>} }

(***************************************************************************)
(* WebhookDelivery.objects.create(webhook=, event=, payload=): the column  *)
(* defaults.                                                               *)
(***************************************************************************)
\* No POST made yet; also the header of a webhook without secret.
NoSignature == <<>>
NoRequest == [signature |-> NoSignature, body |-> <<>>]

NewDelivery(w, event, payload, t) ==
    [webhook |-> w, event |-> event, payload |-> payload,
     status |-> "pending", http_status |-> Null,
     attempts |-> 0, max_attempts |-> DefaultMaxAttempts, next_retry |-> Null,
     created_at |-> t, delivered_at |-> Null,
     response |-> Null,     \* what the POST made for this row got (not a column)
     request |-> NoRequest] \* what that POST sent (not a column)

\* The upper bound taken inclusive.
IsSuccessUpTo300(code) == 200 <= code /\ code <= 300

\* if 200 <= response.status_code < 300
IsSuccess(code) == 200 <= code /\ code < 300

(***************************************************************************)
(* The request of a delivery.  A text is the sequence of its pieces: the   *)
(* punctuation characters one by one, a quoted string or a number as one   *)
(* piece.  json.dumps escapes what is not ASCII, so encode('utf-8') gives  *)
(* one byte for each character.                                            *)
(***************************************************************************)
\* webhook_payload = {'event': ..., 'timestamp': ..., 'data': ...}
WebhookPayload(event, payload, t) ==
    << <<"event", event>>, <<"timestamp", ToString(t)>>,
       <<"data", ToString(payload)>> >>

RECURSIVE DumpItems(_, _, _)
DumpItems(items, item_separator, key_separator) ==
    IF items = <<>> THEN <<>>
    ELSE <<Head(items)[1]>> \o key_separator \o <<Head(items)[2]>>
         \o (IF Len(items) > 1 THEN item_separator ELSE <<>>)
         \o DumpItems(Tail(items), item_separator, key_separator)

\* json.dumps(obj, separators=(item_separator, key_separator)) of a dict.
JsonDumps(items, item_separator, key_separator) ==
    <<"{">> \o DumpItems(items, item_separator, key_separator) \o <<"}">>

\* json.dumps(webhook_payload, separators=(',', ':'))
CompactJson(items) == JsonDumps(items, <<",">>, <<":">>)

\* requests.post(url, json=webhook_payload): the body is json.dumps of the
\* object with the separators json.dumps has by default, (', ', ': ').
PostedJson(items) == JsonDumps(items, <<",", " ">>, <<":", " ">>)

\* hmac.new(key, msg, hashlib.sha256).hexdigest(), taken free of collisions:
\* two digests are equal iff key and message are.
HmacSha256(key, msg) == <<key, msg>>

\* WebhookService._generate_signature(payload, secret)
GenerateSignature(payload, secret) == HmacSha256(secret, payload)

\* IntegrationUtils.validate_webhook_signature(payload, signature, secret)
ValidateWebhookSignature(payload, signature, secret) ==
    signature = HmacSha256(secret, payload)

\* _deliver_webhook: the header X-Webhook-Signature ("if webhook.secret") and
\* the body of requests.post.
PostedRequest(secret, event, payload, t) ==
    [signature |-> IF secret # ""
                   THEN GenerateSignature(CompactJson(WebhookPayload(event, payload, t)),
                                          secret)
                   ELSE NoSignature,
     body |-> PostedJson(WebhookPayload(event, payload, t))]

(***************************************************************************)
(* The database as the service functions thread it: wh (Webhook rows), dl  *)
(* (WebhookDelivery rows), posts (requests.post calls), raised (an         *)
(* exception left the callee).                                             *)
(***************************************************************************)
Db(wh, dl, ps) == [wh |-> wh, dl |-> dl, posts |-> ps, raised |-> FALSE]

(***************************************************************************)
(* WebhookService._deliver_webhook(webhook, event, payload) with the       *)
(* response resp of the POST.  It always creates a new row; the three      *)
(* branches each set attempts = 1 and save the row and the webhook.        *)
(***************************************************************************)
DeliverWebhook(db, w, event, payload, t, resp) ==
    LET id == Len(db.dl) + 1
        created == [NewDelivery(w, event, payload, t) EXCEPT
                       !.request = PostedRequest(db.wh[w].secret, event, payload, t)]
        ps == [db.posts EXCEPT ![w] = @ + 1]
    IN  IF resp # NetErr /\ IsSuccess(resp)
        THEN [db EXCEPT
                !.dl = Append(db.dl, [created EXCEPT !.status = "success",
                                                     !.http_status = resp,
                                                     !.delivered_at = t,
                                                     !.attempts = 1,
                                                     !.response = resp]),
                !.wh = [db.wh EXCEPT ![w].success_count = @ + 1],
                !.posts = ps]
        ELSE IF resp # NetErr
        THEN [db EXCEPT
                !.dl = Append(db.dl, [created EXCEPT !.status = "failed",
                                                     !.http_status = resp,
                                                     !.attempts = 1,
                                                     !.response = resp]),
                !.wh = [db.wh EXCEPT ![w].failure_count = @ + 1],
                !.posts = ps]
        ELSE [db EXCEPT
                !.dl = Append(db.dl, [created EXCEPT !.status = "failed",
                                                     !.attempts = 1,
                                                     !.response = resp]),
                !.wh = [db.wh EXCEPT ![w].failure_count = @ + 1],
                !.posts = ps]

\* The filter without status='active'.
MatchingWebhooksAnyStatus(wh, event, webhook_id) ==
    { w \in DOMAIN wh :
        /\ wh[w].is_active
        /\ event \in wh[w].events
        /\ (webhook_id # Null => w = webhook_id) }

(***************************************************************************)
(* Webhook.objects.filter(is_active=True, status='active',                 *)
(* events__contains=event), narrowed by "if webhook_id:".                  *)
(***************************************************************************)
MatchingWebhooks(wh, event, webhook_id) ==
    { w \in DOMAIN wh :
        /\ wh[w].is_active
        /\ wh[w].status = "active"
        /\ event \in wh[w].events
        /\ (webhook_id # Null => w = webhook_id) }

\* A finite set of integers as the sequence a queryset yields it, newest
\* first (Meta.ordering = ['-created_at']; ids grow with creation).
RECURSIVE NewestFirst(_)
NewestFirst(S) ==
    IF S = {} THEN <<>>
    ELSE LET m == CHOOSE x \in S : \A y \in S : y <= x
         IN  <<m>> \o NewestFirst(S \ {m})

(***************************************************************************)
(* WebhookService.send_webhook(event, payload, webhook_id): the loop over  *)
(* the selected webhooks; resps gives the response each POST gets.  An     *)
(* exception leaving _deliver_webhook ends the loop (the outer except).    *)
(***************************************************************************)
RECURSIVE SendLoop(_, _, _, _, _, _)
SendLoop(db, ws, event, payload, t, resps) ==
    IF ws = <<>> \/ db.raised THEN [db EXCEPT !.raised = FALSE]
    ELSE SendLoop(DeliverWebhook(db, Head(ws), event, payload, t, resps[Head(ws)]),
                  Tail(ws), event, payload, t, resps)

SendWebhook(db, event, payload, webhook_id, t, resps) ==
    SendLoop(db, NewestFirst(MatchingWebhooks(db.wh, event, webhook_id)),
             event, payload, t, resps)

(***************************************************************************)
(* WebhookService._retry_delivery(delivery): delivery is the row as the    *)
(* sweep's query read it.                                                  *)
(***************************************************************************)
BackoffMinutes(attempts) == 2 ^ attempts

\* A retry that reads the row again and leaves it alone once another sweep
\* has taken it.
RetryDeliveryIfStillFailed(db, id, row, t, resp) ==
    IF db.dl[id].status # "failed" THEN db
    ELSE LET bumped == [row EXCEPT !.attempts = row.attempts + 1,
                                   !.status = "retry",
                                   !.next_retry = t + BackoffMinutes(row.attempts + 1)]
             saved == [db EXCEPT !.dl[id] = bumped]
         IN  [DeliverWebhook(saved, row.webhook, row.event, row.payload, t, resp)
                 EXCEPT !.raised = FALSE]

RetryDelivery(db, id, row, t, resp) ==
    LET bumped == [row EXCEPT !.attempts = row.attempts + 1,
                              !.status = "retry",
                              !.next_retry = t + BackoffMinutes(row.attempts + 1)]
        saved == [db EXCEPT !.dl[id] = bumped]
    IN  [DeliverWebhook(saved, row.webhook, row.event, row.payload, t, resp)
            EXCEPT !.raised = FALSE]

(***************************************************************************)
(* WebhookService.retry_failed_deliveries(): the query and the loop.       *)
(***************************************************************************)
SelectedForRetry(dl, t) ==
    { i \in DOMAIN dl :
        /\ dl[i].status = "failed"
        /\ dl[i].attempts < dl[i].max_attempts
        /\ dl[i].next_retry # Null
        /\ dl[i].next_retry <= t }

RECURSIVE RetryLoop(_, _, _, _, _)
RetryLoop(db, ids, rows, t, resps) ==
    IF ids = <<>> THEN db
    ELSE RetryLoop(RetryDelivery(db, Head(ids), rows[Head(ids)], t, resps[Head(ids)]),
                   Tail(ids), rows, t, resps)

RetryFailedDeliveries(db, t, resps) ==
    RetryLoop(db, NewestFirst(SelectedForRetry(db.dl, t)), db.dl, t, resps)

(***************************************************************************)
(* Identifiers: f"{type_code}-{year}-{next_num:04d}", with the prefix DEM  *)
(* for a Demande.  The sequence part is kept as its string of digits.      *)
(***************************************************************************)
RECURSIVE Digits(_)
Digits(n) == IF n < 10 THEN <<n>> ELSE Append(Digits(n \div 10), n % 10)

RECURSIVE ZeroPad(_, _)
ZeroPad(ds, width) == IF Len(ds) >= width THEN ds ELSE ZeroPad(<<0>> \o ds, width)

\* f"{next_num:04d}"
Format04d(n) == ZeroPad(Digits(n), 4)

\* int(numero.split('-')[-1])
RECURSIVE ParseInt(_)
ParseInt(ds) ==
    IF ds = <<>> THEN 0
    ELSE ParseInt(SubSeq(ds, 1, Len(ds) - 1)) * 10 + ds[Len(ds)]

\* a < b as strings
RECURSIVE StrLess(_, _)
StrLess(a, b) ==
    IF b = <<>> THEN FALSE
    ELSE IF a = <<>> THEN TRUE
    ELSE IF Head(a) # Head(b) THEN Head(a) < Head(b)
    ELSE StrLess(Tail(a), Tail(b))

Numero(prefix, code, year, n) ==
    [prefix |-> prefix, code |-> code, year |-> year, seq |-> Format04d(n)]

\* The identifiers taken in ascending order: the smallest one.
FirstNumero(S) == CHOOSE n \in S : \A m \in S \ {n} : StrLess(n.seq, m.seq)

\* .order_by('-numero').first() over identifiers with one prefix
LastNumero(S) == CHOOSE n \in S : \A m \in S \ {n} : StrLess(m.seq, n.seq)

\* generate_numero_titre / generate_numero_dossier over the rows of a table
GenerateNumero(rows, prefix, type, day) ==
    LET found == { rows[i].numero : i \in
                     { j \in DOMAIN rows :
                         /\ rows[j].type = type
                         /\ rows[j].numero.code = TypeCode(type)
                         /\ rows[j].numero.year = Year(day) } }
    IN  Numero(prefix, TypeCode(type), Year(day),
               IF found = {} THEN 1 ELSE ParseInt(LastNumero(found).seq) + 1)

\* A worker that is not creating anything.
Idle == [kind |-> "none"]

(***************************************************************************)
(* Initial state: the configured webhooks, no delivery, no request, no     *)
(* title, on 31 December of year 0.  The entry points of the webhook       *)
(* engine do not depend on the order of the apps; Init fixes one, InitApps *)
(* leaves it open.                                                         *)
(***************************************************************************)
InitApps ==
    /\ webhooks \in WebhookTables
    /\ deliveries = <<>>
    /\ now = 0
    /\ posts = [w \in WebhookIds |-> 0]
    /\ occurrences = 0
    /\ adminEdits = 0
    /\ demandes = <<>>
    /\ historique = <<>>
    /\ today = DaysPerYear - 1
    /\ titres = <<>>
    /\ historiqueTitre = <<>>
    /\ redevances = <<>>
    /\ inflight = [p \in Workers |-> Idle]
    /\ outcome = "none"
    /\ appOrder \in AppOrders
    /\ notifications = <<>>
    /\ preferences = [u \in Users |-> <<>>]
    /\ mails = <<>>
    /\ returned = Null

Init ==
    /\ webhooks \in WebhookTables
    /\ deliveries = <<>>
    /\ now = 0
    /\ posts = [w \in WebhookIds |-> 0]
    /\ occurrences = 0
    /\ adminEdits = 0
    /\ demandes = <<>>
    /\ historique = <<>>
    /\ today = DaysPerYear - 1
    /\ titres = <<>>
    /\ historiqueTitre = <<>>
    /\ redevances = <<>>
    /\ inflight = [p \in Workers |-> Idle]
    /\ outcome = "none"
    /\ appOrder = <<"models", "notifications", "api_integration">>
    /\ notifications = <<>>
    /\ preferences = [u \in Users |-> <<>>]
    /\ mails = <<>>
    /\ returned = Null

Commit(db) ==
    /\ webhooks' = db.wh
    /\ deliveries' = db.dl
    /\ posts' = db.posts

\* A post_save signal (trigger_titre_webhooks, trigger_demande_webhooks)
\* or the task send_webhook_notification: send_webhook(event, payload).
FireEvent(event) ==
    /\ occurrences < MaxOccurrences
    /\ Len(deliveries) + Cardinality(MatchingWebhooks(webhooks, event, Null)) <= MaxDeliveries
    /\ \E resps \in [MatchingWebhooks(webhooks, event, Null) -> Responses] :
          Commit(SendWebhook(Db(webhooks, deliveries, posts), event,
                             occurrences + 1, Null, now, resps))
    /\ occurrences' = occurrences + 1
    /\ UNCHANGED <<now, adminEdits, demVars, titVars, envVars, notVars>>

\* views.test_webhook: send_webhook('test.webhook', test_payload, webhook.id)
TestWebhook(w) ==
    /\ occurrences < MaxOccurrences
    /\ Len(deliveries) + 1 <= MaxDeliveries
    /\ \E resps \in [MatchingWebhooks(webhooks, "test.webhook", w) -> Responses] :
          Commit(SendWebhook(Db(webhooks, deliveries, posts), "test.webhook",
                             occurrences + 1, w, now, resps))
    /\ occurrences' = occurrences + 1
    /\ UNCHANGED <<now, adminEdits, demVars, titVars, envVars, notVars>>

\* views.retry_webhook_delivery
RetryWebhookDelivery(id) ==
    /\ id \in DOMAIN deliveries
    /\ Len(deliveries) + 1 <= MaxDeliveries
    /\ IF deliveries[id].status = "success"
       THEN UNCHANGED <<webhooks, deliveries, posts>>
       ELSE LET reset == [deliveries EXCEPT ![id].status = "pending",
                                            ![id].attempts = 0,
                                            ![id].next_retry = now]
            IN  \E resps \in [MatchingWebhooks(webhooks, deliveries[id].event,
                                                 deliveries[id].webhook) -> Responses] :
                   Commit(SendWebhook(Db(webhooks, reset, posts),
                                      deliveries[id].event, deliveries[id].payload,
                                      deliveries[id].webhook, now, resps))
    /\ UNCHANGED <<now, occurrences, adminEdits, demVars, titVars, envVars, notVars>>

\* tasks.retry_failed_webhooks: the periodic sweep
RetrySweep ==
    /\ Len(deliveries) + Cardinality(SelectedForRetry(deliveries, now)) <= MaxDeliveries
    /\ \E resps \in [SelectedForRetry(deliveries, now) -> Responses] :
          Commit(RetryFailedDeliveries(Db(webhooks, deliveries, posts), now, resps))
    /\ UNCHANGED <<now, occurrences, adminEdits, demVars, titVars, envVars, notVars>>

\* The clock.
Tick ==
    /\ now < MaxTime
    /\ now' = now + 1
    /\ UNCHANGED <<webhooks, deliveries, posts, occurrences, adminEdits, demVars, titVars, envVars, notVars>>

\* admin.WebhookDeliveryAdmin: a save of the change form.  attempts and
\* next_retry are editable columns; the operator enters attempts = n and
\* next_retry = now and leaves the other columns as they are.
AdminChangeDelivery(id, n) ==
    /\ adminEdits < MaxAdminEdits
    /\ id \in DOMAIN deliveries
    /\ deliveries' = [deliveries EXCEPT ![id].attempts = n,
                                        ![id].next_retry = now]
    /\ adminEdits' = adminEdits + 1
    /\ UNCHANGED <<webhooks, now, posts, occurrences, demVars, titVars, envVars, notVars>>

Next ==
    \/ \E e \in Events \ {"test.webhook"} : FireEvent(e)
    \/ \E w \in WebhookIds : TestWebhook(w)
    \/ \E id \in 1..MaxDeliveries : RetryWebhookDelivery(id)
    \/ RetrySweep
    \/ Tick

Spec == Init /\ [][Next]_vars

FairSpec == Spec /\ WF_vars(Tick) /\ WF_vars(RetrySweep)

NextAdmin ==
    \/ Next
    \/ \E id \in 1..MaxDeliveries, n \in 1..DefaultMaxAttempts :
            AdminChangeDelivery(id, n)

SpecAdmin == Init /\ [][NextAdmin]_vars

(***************************************************************************)
(* Two workers running the task retry_failed_webhooks, statement by        *)
(* statement: the query of retry_failed_deliveries is evaluated when the   *)
(* loop starts, _retry_delivery works on the objects the query returned.   *)
(***************************************************************************)
\* failed_deliveries = WebhookDelivery.objects.filter(...); for delivery in
BeginSweep(p) ==
    /\ inflight[p] = Idle
    /\ inflight' = [inflight EXCEPT ![p] =
                       [kind |-> "retry_failed_deliveries",
                        ids |-> NewestFirst(SelectedForRetry(deliveries, now)),
                        rows |-> deliveries,
                        retried |-> {}]]
    /\ UNCHANGED <<whVars, demVars, titVars, outcome, appOrder, notVars>>

\* WebhookService._retry_delivery(delivery), one turn of the loop.
SweepRetry(p) ==
    /\ inflight[p].kind = "retry_failed_deliveries"
    /\ inflight[p].ids # <<>>
    /\ Len(deliveries) < MaxDeliveries
    /\ LET id == Head(inflight[p].ids)
       IN  /\ \E resp \in Responses :
                 Commit(RetryDelivery(Db(webhooks, deliveries, posts), id,
                                      inflight[p].rows[id], now, resp))
           /\ inflight' = [inflight EXCEPT ![p].ids = Tail(@),
                                           ![p].retried = @ \cup {id}]
    /\ UNCHANGED <<now, occurrences, adminEdits, demVars, titVars, outcome,
                   appOrder, notVars>>

\* The loop is over: the task returns True.
FinishSweep(p) ==
    /\ inflight[p].kind = "retry_failed_deliveries"
    /\ inflight[p].ids = <<>>
    /\ inflight' = [inflight EXCEPT ![p] = Idle]
    /\ UNCHANGED <<whVars, demVars, titVars, outcome, appOrder, notVars>>

NextSweeps ==
    \/ FireEvent("demande.updated")
    \/ \E id \in 1..MaxDeliveries : AdminChangeDelivery(id, 1)
    \/ \E p \in Workers : BeginSweep(p)
    \/ \E p \in Workers : SweepRetry(p)
    \/ \E p \in Workers : FinishSweep(p)

SpecSweeps == Init /\ [][NextSweeps]_vars

(***************************************************************************)
(* Requests (demandes).                                                    *)
(***************************************************************************)
DemandeStatuses == {"soumise", "en_examen", "approuvee", "rejetee"}
FinalStatuses == {"approuvee", "rejetee"}

\* The history action that goes with a new status.
ActionFor(status) ==
    IF status = "en_examen" THEN "mise_en_examen"
    ELSE IF status = "approuvee" THEN "approbation"
    ELSE IF status = "rejetee" THEN "rejet"
    ELSE "modification"

\* ancien_status is "" where the column is NULL.
HistoryEntry(i, action, old, new) ==
    [demande |-> i, action |-> action, ancien_status |-> old, nouveau_status |-> new]

\* signals.demande_pre_save and demande_post_save around the save of an
\* existing Demande: old is the status read back from the table before the
\* save, new the status saved.
PostSaveHistory(hist, i, old, new) ==
    IF old # new
         /\ ~ \E k \in DOMAIN hist :
                 /\ hist[k].demande = i
                 /\ hist[k].ancien_status = old
                 /\ hist[k].nouveau_status = new
    THEN Append(hist, HistoryEntry(i, ActionFor(new), old, new))
    ELSE hist

\* api_integration.signals.trigger_demande_webhooks: the event of a save.
\* The statuses it looks for are not those of a Demande.
DemandeEvent(created, status) ==
    IF created THEN "demande.created"
    ELSE IF status = "approuve" THEN "demande.approved"
    ELSE IF status = "rejete" THEN "demande.rejected"
    ELSE "demande.updated"

DemandePayload(i, status) == [id |-> i, status |-> status]

\* What a request has written so far.
World(dem, hist, db) == [dem |-> dem, hist |-> hist, db |-> db, raised |-> FALSE]

\* The post_save receivers of Demande, in the order of apps, up to the
\* first one that raises:
\*   demandes.signals.demande_post_save            history
\*   notifications.signals.notify_demande_changes  notify_demande_created, or
\*       notify_demande_status_changed, which NotificationService does not
\*       define: AttributeError
\*   api_integration.signals.trigger_demande_webhooks  send_webhook
RECURSIVE DemandePostSave(_, _, _, _, _, _, _)
DemandePostSave(w, apps, i, created, old, t, resps) ==
    IF apps = <<>> \/ w.raised THEN w
    ELSE LET new == w.dem[i].status
             after ==
                 IF Head(apps) = "models"
                 THEN [w EXCEPT !.hist =
                          IF created
                          THEN Append(@, HistoryEntry(i, "soumission", "", new))
                          ELSE PostSaveHistory(@, i, old, new)]
                 ELSE IF Head(apps) = "notifications"
                 THEN [w EXCEPT !.raised = ~created]
                 ELSE [w EXCEPT !.db =
                          SendWebhook(@, DemandeEvent(created, new),
                                      DemandePayload(i, new), Null, t, resps)]
         IN  DemandePostSave(after, Tail(apps), i, created, old, t, resps)

\* What the receivers can be answered by the subscribers of the event.
DemandeResponses(created, status) ==
    [MatchingWebhooks(webhooks, DemandeEvent(created, status), Null) -> Responses]

WriteWorld(w) ==
    /\ Len(w.hist) <= MaxHistorique
    /\ Len(w.db.dl) <= MaxSignalled
    /\ demandes' = w.dem
    /\ historique' = w.hist
    /\ Commit(w.db)

\* Demande.objects.create(...) (the admin's add form, the test suite): save()
\* generates numero_dossier, and the receivers run with created = True.
CreateDemandeWithin(limit, type) ==
    /\ Len(demandes) < limit
    /\ LET i == Len(demandes) + 1
           row == [status |-> "soumise", date_soumission |-> today,
                   date_traitement |-> Null, type |-> type,
                   numero |-> GenerateNumero(demandes, "DEM", type, today)]
       IN  \E resps \in DemandeResponses(TRUE, "soumise") :
              LET w == DemandePostSave(
                          World(Append(demandes, row), historique,
                                Db(webhooks, deliveries, posts)),
                          appOrder, i, TRUE, "", now, resps)
              IN  /\ WriteWorld(w)
                  /\ outcome' = IF w.raised THEN "AttributeError" ELSE "ok"
    /\ UNCHANGED <<now, occurrences, adminEdits, today, titVars, inflight, appOrder, notVars>>

CreateDemande(type) == CreateDemandeWithin(MaxDemandes, type)

\* DemandeViewSet.create: perform_create passes demandeur to serializer.save,
\* DemandeCreateSerializer.create passes it again to Demande.objects.create
\* next to **validated_data: TypeError before anything is written.
ApiCreateDemande ==
    /\ outcome' = "TypeError"
    /\ UNCHANGED <<whVars, demVars, titVars, inflight, appOrder, notVars>>

\* DemandeViewSet.update_status: DemandeUpdateStatusSerializer accepts any
\* of the STATUS_CHOICES.  The history entry of the view comes after
\* demande.save() and its receivers.
UpdateStatusResult(i, nouveau, resps) ==
    LET ancien == demandes[i].status
        saved == [demandes EXCEPT ![i].status = nouveau,
                                  ![i].date_traitement =
                                      IF nouveau \in FinalStatuses THEN today ELSE @]
        w == DemandePostSave(World(saved, historique, Db(webhooks, deliveries, posts)),
                             appOrder, i, FALSE, ancien, now, resps)
    IN  IF w.raised THEN w
        ELSE [w EXCEPT !.hist =
                 Append(@, HistoryEntry(i, ActionFor(nouveau), ancien, nouveau))]

UpdateStatus(i, nouveau) ==
    /\ i \in DOMAIN demandes
    /\ \E resps \in DemandeResponses(FALSE, nouveau) :
          LET w == UpdateStatusResult(i, nouveau, resps)
          IN  /\ WriteWorld(w)
              /\ outcome' = IF w.raised THEN "AttributeError" ELSE "ok"
    /\ UNCHANGED <<now, occurrences, adminEdits, today, titVars, inflight, appOrder, notVars>>

\* DemandeViewSet.update / partial_update: DemandeSerializer.update with a
\* status in the request (status is a writable field of the serializer).
\* super().update saves; a changed status that is final is followed by
\* date_traitement and a second save; then the history entry.
SerializerUpdateResult(i, nouveau, resps) ==
    LET ancien == demandes[i].status
        first == [demandes EXCEPT ![i].status = nouveau]
        w1 == DemandePostSave(World(first, historique, Db(webhooks, deliveries, posts)),
                              appOrder, i, FALSE, ancien, now, resps)
        dated == [w1 EXCEPT !.dem[i].date_traitement = today]
        w2 == IF nouveau \in FinalStatuses
              THEN DemandePostSave(dated, appOrder, i, FALSE, nouveau, now, resps)
              ELSE w1
    IN  IF w1.raised \/ ancien = nouveau THEN w1
        ELSE IF w2.raised THEN w2
        ELSE [w2 EXCEPT !.hist =
                 Append(@, HistoryEntry(i, ActionFor(nouveau), ancien, nouveau))]

SerializerUpdate(i, nouveau) ==
    /\ i \in DOMAIN demandes
    /\ \E resps \in DemandeResponses(FALSE, nouveau) :
          LET w == SerializerUpdateResult(i, nouveau, resps)
          IN  /\ WriteWorld(w)
              /\ outcome' = IF w.raised THEN "AttributeError" ELSE "ok"
    /\ UNCHANGED <<now, occurrences, adminEdits, today, titVars, inflight, appOrder, notVars>>

\* The calendar.
DayTick ==
    /\ today < DaysPerYear - 1 + MaxDay
    /\ today' = today + 1
    /\ UNCHANGED <<whVars, demandes, historique, titVars, envVars, notVars>>

NextDemande ==
    \/ CreateDemande("licence_type_1")
    \/ ApiCreateDemande
    \/ \E i \in 1..MaxDemandes, s \in DemandeStatuses : UpdateStatus(i, s)
    \/ \E i \in 1..MaxDemandes, s \in DemandeStatuses : SerializerUpdate(i, s)
    \/ DayTick

SpecDemande == InitApps /\ [][NextDemande]_vars

(***************************************************************************)
(* The same operations with webhook 2 subscribed to demande.approved and   *)
(* to nothing else (Webhook.EVENT_CHOICES offers the event).               *)
(***************************************************************************)
ApprovalTable ==
    [w \in WebhookIds |->
        WebhookRow(IF w = 2 THEN {"demande.approved"} ELSE Subscriptions[w],
                   TRUE, "active", Secrets[w])]

InitApproval ==
    /\ webhooks = ApprovalTable
    /\ deliveries = <<>>
    /\ now = 0
    /\ posts = [w \in WebhookIds |-> 0]
    /\ occurrences = 0
    /\ adminEdits = 0
    /\ demandes = <<>>
    /\ historique = <<>>
    /\ today = DaysPerYear - 1
    /\ titres = <<>>
    /\ historiqueTitre = <<>>
    /\ redevances = <<>>
    /\ inflight = [p \in Workers |-> Idle]
    /\ outcome = "none"
    /\ appOrder \in AppOrders
    /\ notifications = <<>>
    /\ preferences = [u \in Users |-> <<>>]
    /\ mails = <<>>
    /\ returned = Null

SpecApproval == InitApproval /\ [][NextDemande]_vars

(***************************************************************************)
(* Titles (titres).                                                        *)
(***************************************************************************)
TitreStatuses == {"en_attente", "en_cours", "approuve", "rejete", "expire"}

\* The expiration dates entered: the day the model starts, and a year later.
ExpirationDates == {DaysPerYear - 1, 2 * DaysPerYear - 1}

\* The column left at its default.
RedevanceDefault(type) == 0

\* Titre.calculate_redevance
CalculateRedevance(type) ==
    IF type = "licence_type_1" THEN 500000
    ELSE IF type = "licence_type_2" THEN 300000
    ELSE IF type = "agrement_vendeurs" THEN 100000
    ELSE IF type = "agrement_installateurs" THEN 150000
    ELSE IF type = "concessions" THEN 1000000
    ELSE IF type = "recepisse" THEN 50000
    ELSE 0

\* date(annee, 12, 31)
LastDayOf(annee) == (annee + 1) * DaysPerYear - 1

\* RedevanceTitre.objects.create(...): RedevanceTitre.save turns a new row
\* that is already past its due date into en_retard.
NewRedevance(i, annee, montant, day) ==
    [titre |-> i, annee |-> annee, montant |-> montant,
     date_echeance |-> LastDayOf(annee),
     status_paiement |-> IF day > LastDayOf(annee) THEN "en_retard" ELSE "en_attente"]

\* A check that looks for a record of the title, of whatever year.
HasRedevanceAnyYear(red, i, annee) ==
    \E k \in DOMAIN red : red[k].titre = i

\* RedevanceTitre.objects.filter(titre=titre, annee=annee).exists()
HasRedevance(red, i, annee) ==
    \E k \in DOMAIN red : red[k].titre = i /\ red[k].annee = annee

\* Titre.is_expired
IsExpired(row, day) == day > row.date_expiration

TitreEntry(i, action, old, new) ==
    [titre |-> i, action |-> action, ancien_status |-> old, nouveau_status |-> new]

TitreWorld(tit, hist, red) == [tit |-> tit, hist |-> hist, red |-> red, raised |-> FALSE]

\* The rule of titre_pre_save in the place of the rule of Titre.save: a
\* rejected title keeps its status.
TitreSaveStatusSparingRejete(row, day) ==
    IF IsExpired(row, day) /\ row.status \notin {"expire", "rejete"}
    THEN "expire" ELSE row.status

\* Titre.save before super().save(): the status of an expired title.
TitreSaveStatus(row, day) ==
    IF IsExpired(row, day) /\ row.status # "expire" THEN "expire" ELSE row.status

\* signals.titre_pre_save, for a title that is already stored.
TitrePreSaveStatus(row, day) ==
    IF IsExpired(row, day) /\ row.status \notin {"expire", "rejete"}
    THEN "expire" ELSE row.status

\* signals.titre_post_save, and redevance_post_save for the row it creates.
TitrePostSaveFee(w, i, created, day) ==
    IF created /\ w.tit[i].status = "approuve"
         /\ ~ HasRedevance(w.red, i, Year(day))
    THEN [w EXCEPT !.red = Append(@, NewRedevance(i, Year(day),
                                                  w.tit[i].redevance_annuelle, day)),
                   !.hist = Append(@, TitreEntry(i, "modification", "", ""))]
    ELSE w

\* The post_save receivers of Titre, in the order of apps, up to the first
\* one that raises:
\*   titres.signals.titre_post_save               fee of the year
\*   notifications.signals.notify_titre_changes   (catches its own errors)
\*   api_integration.signals.trigger_titre_webhooks  reads instance.type_titre,
\*       which a Titre does not have: AttributeError
RECURSIVE TitrePostSave(_, _, _, _, _)
TitrePostSave(w, apps, i, created, day) ==
    IF apps = <<>> \/ w.raised THEN w
    ELSE LET after ==
                 IF Head(apps) = "models" THEN TitrePostSaveFee(w, i, created, day)
                 ELSE IF Head(apps) = "notifications" THEN w
                 ELSE [w EXCEPT !.raised = TRUE]
         IN  TitrePostSave(after, Tail(apps), i, created, day)

\* Titre.save() of row as title i: the status of an expired title, the
\* write, the receivers.
TitreSave(tit, hist, red, i, row, created, day) ==
    LET first == [row EXCEPT !.redevance_annuelle = CalculateRedevance(row.type),
                             !.status = TitreSaveStatus(row, day)]
        second == IF created THEN first
                  ELSE [first EXCEPT !.status = TitrePreSaveStatus(first, day)]
        written == IF created THEN Append(tit, second) ELSE [tit EXCEPT ![i] = second]
    IN  TitrePostSave(TitreWorld(written, hist, red), appOrder, i, created, day)

WriteTitres(w) ==
    /\ Len(w.hist) <= MaxHistoriqueTitre
    /\ titres' = w.tit
    /\ historiqueTitre' = w.hist
    /\ redevances' = w.red

NewTitre(type, status, expiration) ==
    [type |-> type, status |-> status, date_emission |-> expiration - DaysPerYear,
     date_expiration |-> expiration, duree_ans |-> 1, redevance_annuelle |-> 0,
     numero |-> GenerateNumero(titres, "", type, today)]

\* TitreViewSet.create: TitreCreateSerializer.create, status left to its
\* default; the 'creation' entry follows Titre.objects.create.
ApiCreateTitreWithin(limit, type, expiration) ==
    /\ Len(titres) < limit
    /\ LET i == Len(titres) + 1
           w == TitreSave(titres, historiqueTitre, redevances, i,
                          NewTitre(type, "en_attente", expiration), TRUE, today)
       IN  /\ WriteTitres(IF w.raised THEN w
                          ELSE [w EXCEPT !.hist =
                                   Append(@, TitreEntry(i, "creation", "", w.tit[i].status))])
           /\ outcome' = IF w.raised THEN "AttributeError" ELSE "ok"
    /\ UNCHANGED <<whVars, demVars, inflight, appOrder, notVars>>

ApiCreateTitre(type, expiration) == ApiCreateTitreWithin(MaxTitres, type, expiration)

\* TitreAdmin, add form: a Titre saved with the status entered.
AdminAddTitreWithin(limit, type, status, expiration) ==
    /\ Len(titres) < limit
    /\ LET w == TitreSave(titres, historiqueTitre, redevances, Len(titres) + 1,
                          NewTitre(type, status, expiration), TRUE, today)
       IN  /\ WriteTitres(w)
           /\ outcome' = IF w.raised THEN "AttributeError" ELSE "ok"
    /\ UNCHANGED <<whVars, demVars, inflight, appOrder, notVars>>

AdminAddTitre(type, status, expiration) ==
    AdminAddTitreWithin(MaxTitres, type, status, expiration)

\* TitreViewSet.update / partial_update: TitreSerializer.update with a
\* status in the request.
UpdateTitre(i, status) ==
    /\ i \in DOMAIN titres
    /\ LET ancien == titres[i].status
           w == TitreSave(titres, historiqueTitre, redevances, i,
                          [titres[i] EXCEPT !.status = status], FALSE, today)
       IN  /\ WriteTitres(IF w.raised \/ ancien = w.tit[i].status THEN w
                          ELSE [w EXCEPT !.hist =
                                   Append(@, TitreEntry(i, "modification", ancien,
                                                        w.tit[i].status))])
           /\ outcome' = IF w.raised THEN "AttributeError" ELSE "ok"
    /\ UNCHANGED <<whVars, demVars, inflight, appOrder, notVars>>

\* What suspend, reactivate and renew share: save the changed row, then the
\* history entry with the status before and the status stored.
Transition(i, row, action) ==
    LET ancien == titres[i].status
        w == TitreSave(titres, historiqueTitre, redevances, i, row, FALSE, today)
    IN  /\ WriteTitres(IF w.raised THEN w
                       ELSE [w EXCEPT !.hist =
                                Append(@, TitreEntry(i, action, ancien, w.tit[i].status))])
        /\ outcome' = IF w.raised THEN "AttributeError" ELSE "ok"

Refuse ==
    /\ outcome' = "refused"
    /\ UNCHANGED titVars

\* TitreViewSet.suspend
Suspend(i) ==
    /\ i \in DOMAIN titres
    /\ IF titres[i].status \in {"approuve", "en_cours"}
       THEN Transition(i, [titres[i] EXCEPT !.status = "rejete"], "suspension")
       ELSE Refuse
    /\ UNCHANGED <<whVars, demVars, inflight, appOrder, notVars>>

\* TitreViewSet.reactivate
Reactivate(i) ==
    /\ i \in DOMAIN titres
    /\ IF titres[i].status = "rejete"
       THEN Transition(i, [titres[i] EXCEPT !.status = "approuve"], "reactivation")
       ELSE Refuse
    /\ UNCHANGED <<whVars, demVars, inflight, appOrder, notVars>>

\* TitreViewSet.renew with Titre.renew(duree_ans)
Renew(i, duree_ans) ==
    /\ i \in DOMAIN titres
    /\ Transition(i, [titres[i] EXCEPT !.date_emission = today,
                                       !.date_expiration = today + duree_ans * DaysPerYear,
                                       !.duree_ans = duree_ans,
                                       !.status = "approuve"],
                  "renouvellement")
    /\ UNCHANGED <<whVars, demVars, inflight, appOrder, notVars>>

NextTitre ==
    \/ \E e \in ExpirationDates : ApiCreateTitre("licence_type_1", e)
    \/ \E e \in ExpirationDates : AdminAddTitre("licence_type_1", "approuve", e)
    \/ \E i \in 1..MaxTitres, st \in TitreStatuses : UpdateTitre(i, st)
    \/ \E i \in 1..MaxTitres : Suspend(i)
    \/ \E i \in 1..MaxTitres : Reactivate(i)
    \/ \E i \in 1..MaxTitres : Renew(i, 1)
    \/ DayTick

SpecTitre == InitApps /\ [][NextTitre]_vars

\* Renewal, for the durations TitreRenewalSerializer accepts, of titles in
\* any status.
Durations == {1, 2}

NextRenew ==
    \/ \E type \in TitreTypes, e \in ExpirationDates : ApiCreateTitre(type, e)
    \/ \E i \in 1..MaxTitres, st \in TitreStatuses : UpdateTitre(i, st)
    \/ \E i \in 1..MaxTitres, d \in Durations : Renew(i, d)
    \/ DayTick

SpecRenew == Init /\ [][NextRenew]_vars

(***************************************************************************)
(* Fee records (redevances).                                               *)
(***************************************************************************)
FeeYears == {0, 1}

\* The loop of generate_annual_fees over the titles from i on: a record, and
\* the history entry of redevance_post_save, for each title stored as
\* approuve that has no record of the year.
RECURSIVE GenerateFees(_, _, _, _)
GenerateFees(w, i, annee, day) ==
    IF i > Len(w.tit) THEN w
    ELSE IF w.tit[i].status = "approuve" /\ ~ HasRedevance(w.red, i, annee)
    THEN GenerateFees(
             [w EXCEPT !.red = Append(@, NewRedevance(i, annee,
                                                      w.tit[i].redevance_annuelle, day)),
                       !.hist = Append(@, TitreEntry(i, "modification", "", ""))],
             i + 1, annee, day)
    ELSE GenerateFees(w, i + 1, annee, day)

\* RedevanceTitreViewSet.generate_annual_fees
GenerateAnnualFees(annee) ==
    /\ WriteTitres(GenerateFees(TitreWorld(titres, historiqueTitre, redevances),
                                1, annee, today))
    /\ outcome' = "ok"
    /\ UNCHANGED <<whVars, demVars, inflight, appOrder, notVars>>

\* Titles created through the API (en_attente) and approved afterwards, titles
\* added as approuve, and the generation of the fees of a year.
NextFees ==
    \/ ApiCreateTitreWithin(MaxFeeTitres, "recepisse", 2 * DaysPerYear - 1)
    \/ AdminAddTitreWithin(MaxFeeTitres, "licence_type_1", "approuve",
                           2 * DaysPerYear - 1)
    \/ \E i \in 1..MaxFeeTitres : UpdateTitre(i, "approuve")
    \/ \E annee \in FeeYears : GenerateAnnualFees(annee)
    \/ DayTick

SpecFees == Init /\ [][NextFees]_vars

(***************************************************************************)
(* Fee records written by two workers.  generate_annual_fees and           *)
(* titre_post_save both look for the record of (titre, annee) and create   *)
(* it afterwards; RedevanceTitre has unique_together (titre, annee).       *)
(***************************************************************************)
\* Without the constraint no insert fails.
FeeNeverCollides(red, i, annee) == FALSE

\* unique_together = ['titre', 'annee']: the insert of a second record fails.
FeeCollides(red, i, annee) == HasRedevance(red, i, annee)

\* Titre.save of a new title stored as approuve, up to the write of the row;
\* titre_post_save is the first receiver to run.
InsertApprovedTitre(p) ==
    /\ inflight[p] = Idle
    /\ Len(titres) < MaxFeeTitres
    /\ LET row == NewTitre("licence_type_1", "approuve", 2 * DaysPerYear - 1)
       IN  titres' = Append(titres, [row EXCEPT !.redevance_annuelle =
                                                   CalculateRedevance(row.type)])
    /\ inflight' = [inflight EXCEPT ![p] =
                       [kind |-> "titre_post_save", annee |-> Year(today),
                        todo |-> <<Len(titres) + 1>>, checked |-> FALSE]]
    /\ UNCHANGED <<whVars, demVars, historiqueTitre, redevances, outcome, appOrder, notVars>>

\* generate_annual_fees: the titles stored as approuve are read when the
\* loop starts.
ApprovedTitres ==
    SelectSeq([j \in 1..Len(titres) |-> j], LAMBDA j : titres[j].status = "approuve")

BeginGenerateFees(p, annee) ==
    /\ inflight[p] = Idle
    /\ inflight' = [inflight EXCEPT ![p] =
                       [kind |-> "generate_annual_fees", annee |-> annee,
                        todo |-> ApprovedTitres, checked |-> FALSE]]
    /\ UNCHANGED <<whVars, demVars, titVars, outcome, appOrder, notVars>>

\* if not RedevanceTitre.objects.filter(titre=..., annee=...).exists()
CheckFee(p) ==
    /\ inflight[p].kind \in {"titre_post_save", "generate_annual_fees"}
    /\ inflight[p].todo # <<>>
    /\ ~ inflight[p].checked
    /\ inflight' = [inflight EXCEPT ![p] =
                       IF HasRedevance(redevances, Head(@.todo), @.annee)
                       THEN [@ EXCEPT !.todo = Tail(@)]
                       ELSE [@ EXCEPT !.checked = TRUE]]
    /\ UNCHANGED <<whVars, demVars, titVars, outcome, appOrder, notVars>>

\* RedevanceTitre.objects.create(...), with redevance_post_save
CreateFee(p) ==
    /\ inflight[p].kind \in {"titre_post_save", "generate_annual_fees"}
    /\ inflight[p].checked
    /\ LET i == Head(inflight[p].todo)
           annee == inflight[p].annee
       IN  IF FeeCollides(redevances, i, annee)
           THEN /\ outcome' = "IntegrityError"
                /\ inflight' = [inflight EXCEPT ![p] = Idle]
                /\ UNCHANGED titVars
           ELSE /\ Len(historiqueTitre) < MaxHistoriqueTitre
                /\ redevances' = Append(redevances,
                                        NewRedevance(i, annee,
                                                     titres[i].redevance_annuelle, today))
                /\ historiqueTitre' = Append(historiqueTitre,
                                             TitreEntry(i, "modification", "", ""))
                /\ inflight' = [inflight EXCEPT ![p] =
                                   [@ EXCEPT !.todo = Tail(@), !.checked = FALSE]]
                /\ UNCHANGED <<titres, outcome>>
    /\ UNCHANGED <<whVars, demVars, appOrder, notVars>>

\* The end of the loop; after titre_post_save, the receivers that follow it.
FinishFees(p) ==
    /\ inflight[p].kind \in {"titre_post_save", "generate_annual_fees"}
    /\ inflight[p].todo = <<>>
    /\ inflight' = [inflight EXCEPT ![p] = Idle]
    /\ outcome' = IF inflight[p].kind = "generate_annual_fees" THEN "ok"
                  ELSE "AttributeError"
    /\ UNCHANGED <<whVars, demVars, titVars, appOrder, notVars>>

NextFeesConcurrent ==
    \/ \E p \in Workers : InsertApprovedTitre(p)
    \/ \E p \in Workers, annee \in FeeYears : BeginGenerateFees(p, annee)
    \/ \E p \in Workers : CheckFee(p)
    \/ \E p \in Workers : CreateFee(p)
    \/ \E p \in Workers : FinishFees(p)

SpecFeesConcurrent == Init /\ [][NextFeesConcurrent]_vars

(***************************************************************************)
(* HistoriqueDemandeAdmin: every field is read-only, and the delete        *)
(* permission is the default one.                                          *)
(***************************************************************************)
RemoveAt(seq, k) == SubSeq(seq, 1, k - 1) \o SubSeq(seq, k + 1, Len(seq))

AdminDeleteHistorique(k) ==
    /\ k \in DOMAIN historique
    /\ historique' = RemoveAt(historique, k)
    /\ outcome' = "ok"
    /\ UNCHANGED <<whVars, demandes, today, titVars, inflight, appOrder, notVars>>

NextDemandeAdmin ==
    \/ NextDemande
    \/ \E k \in 1..MaxHistorique : AdminDeleteHistorique(k)

SpecDemandeAdmin == InitApps /\ [][NextDemandeAdmin]_vars

(***************************************************************************)
(* Creations only, one after the other, over the turn of the year.         *)
(***************************************************************************)
NextCreate ==
    \/ \E type \in TitreTypes : CreateDemandeWithin(MaxNumbered, type)
    \/ \E type \in TitreTypes :
          ApiCreateTitreWithin(MaxNumbered, type, 2 * DaysPerYear - 1)
    \/ DayTick

SpecCreate == InitApps /\ [][NextCreate]_vars

(***************************************************************************)
(* Creations by two workers.  A creation reads the table for the last      *)
(* identifier when save() starts and inserts the row afterwards; the       *)
(* columns numero_titre and numero_dossier are unique.                     *)
(***************************************************************************)
\* A column without the unique constraint.
NeverCollides(rows, numero) == FALSE

\* unique=True: the insert of a second row with the identifier fails.
Collides(rows, numero) == \E i \in DOMAIN rows : rows[i].numero = numero

\* save() up to the identifier
BeginCreateTitre(p, type) ==
    /\ inflight[p] = Idle
    /\ Len(titres) + Cardinality({q \in Workers : inflight[q].kind = "titre"}) < MaxNumbered
    /\ inflight' = [inflight EXCEPT ![p] =
                       [kind |-> "titre", type |-> type,
                        numero |-> GenerateNumero(titres, "", type, today)]]
    /\ UNCHANGED <<whVars, demVars, titVars, outcome, appOrder, notVars>>

\* super().save(): the insert, then the receivers
FinishCreateTitre(p) ==
    /\ inflight[p].kind = "titre"
    /\ inflight' = [inflight EXCEPT ![p] = Idle]
    /\ IF Collides(titres, inflight[p].numero)
       THEN /\ outcome' = "IntegrityError"
            /\ UNCHANGED titVars
       ELSE LET i == Len(titres) + 1
                row == [type |-> inflight[p].type, status |-> "en_attente",
                        date_emission |-> DaysPerYear - 1,
                        date_expiration |-> 2 * DaysPerYear - 1, duree_ans |-> 1,
                        redevance_annuelle |-> CalculateRedevance(inflight[p].type),
                        numero |-> inflight[p].numero]
                w == TitrePostSave(TitreWorld(Append(titres, row), historiqueTitre,
                                              redevances),
                                   appOrder, i, TRUE, today)
            IN  /\ WriteTitres(IF w.raised THEN w
                               ELSE [w EXCEPT !.hist =
                                        Append(@, TitreEntry(i, "creation", "", "en_attente"))])
                /\ outcome' = IF w.raised THEN "AttributeError" ELSE "ok"
    /\ UNCHANGED <<whVars, demVars, appOrder, notVars>>

BeginCreateDemande(p, type) ==
    /\ inflight[p] = Idle
    /\ Len(demandes) + Cardinality({q \in Workers : inflight[q].kind = "demande"}) < MaxNumbered
    /\ inflight' = [inflight EXCEPT ![p] =
                       [kind |-> "demande", type |-> type,
                        numero |-> GenerateNumero(demandes, "DEM", type, today)]]
    /\ UNCHANGED <<whVars, demVars, titVars, outcome, appOrder, notVars>>

FinishCreateDemande(p) ==
    /\ inflight[p].kind = "demande"
    /\ inflight' = [inflight EXCEPT ![p] = Idle]
    /\ IF Collides(demandes, inflight[p].numero)
       THEN /\ outcome' = "IntegrityError"
            /\ UNCHANGED <<whVars, demandes, historique>>
       ELSE LET i == Len(demandes) + 1
                row == [status |-> "soumise", date_soumission |-> today,
                   date_traitement |-> Null,
                        type |-> inflight[p].type, numero |-> inflight[p].numero]
            IN  \E resps \in DemandeResponses(TRUE, "soumise") :
                   LET w == DemandePostSave(
                               World(Append(demandes, row), historique,
                                     Db(webhooks, deliveries, posts)),
                               appOrder, i, TRUE, "", now, resps)
                   IN  /\ WriteWorld(w)
                       /\ outcome' = IF w.raised THEN "AttributeError" ELSE "ok"
    /\ UNCHANGED <<now, occurrences, adminEdits, today, titVars, appOrder, notVars>>

NextConcurrent ==
    \/ \E p \in Workers : BeginCreateTitre(p, "licence_type_1")
    \/ \E p \in Workers : FinishCreateTitre(p)
    \/ \E p \in Workers : BeginCreateDemande(p, "licence_type_1")
    \/ \E p \in Workers : FinishCreateDemande(p)
    \/ DayTick

SpecConcurrent == InitApps /\ [][NextConcurrent]_vars

(***************************************************************************)
(* Notifications.  create_notification is called by receivers, views and   *)
(* jobs; CreateNotification stands for a call with any arguments.          *)
(***************************************************************************)
NotificationTypes == {"info", "expiration", "reminder"}

\* The types that have a field in NotificationPreference.
Flags == {"expiration", "status_change", "assignment", "reminder"}

\* No NotificationPreference row for the user.
NoPreference == <<>>

\* NotificationPreference as created by get_or_create: every flag True.
DefaultPreference == [f \in Flags |-> TRUE]

\* The bodies sent to NotificationPreferenceView.
PreferenceBodies ==
    { [f \in Flags |-> FALSE], [f \in Flags |-> f # "expiration"] }

\* A check that ignores the preferences.
ShouldSendEmailAlways(type, prefs) == TRUE

\* NotificationService._should_send_email
ShouldSendEmail(type, prefs) ==
    IF type \in Flags THEN prefs[type] ELSE TRUE

\* send_mail either delivers the message or raises.
SmtpOutcomes == {"sent", "SMTPException"}

NotifWorld(notes, prefs, sent) == [notes |-> notes, prefs |-> prefs, sent |-> sent]

\* NotificationService.send_email_notification for row k
SendEmailNotification(w, k, smtp) ==
    LET u == w.notes[k].recipient
        prefs == IF w.prefs[u] = NoPreference THEN DefaultPreference ELSE w.prefs[u]
        got == [w EXCEPT !.prefs[u] = prefs]
    IN  IF ~ ShouldSendEmail(w.notes[k].type, prefs) THEN got
        ELSE IF smtp # "sent" THEN got
        ELSE [got EXCEPT !.sent = Append(@, [to |-> u, notification |-> k]),
                         !.notes[k].is_sent_email = TRUE]

\* A call that loses the row when send_mail raises.
CreateNotificationUnlessMailFails(w, recipient, type, days, send_email, smtp) ==
    IF send_email /\ smtp # "sent" THEN w
    ELSE LET k == Len(w.notes) + 1
             row == [recipient |-> recipient, type |-> type, days |-> days,
                     is_sent_email |-> FALSE]
             created == [w EXCEPT !.notes = Append(@, row)]
         IN  IF send_email THEN SendEmailNotification(created, k, smtp) ELSE created

\* NotificationService.create_notification; days stands for the number of
\* days written in the title and message of a warning, 0 elsewhere.
CreateNotificationIn(w, recipient, type, days, send_email, smtp) ==
    LET k == Len(w.notes) + 1
        row == [recipient |-> recipient, type |-> type, days |-> days,
                is_sent_email |-> FALSE]
        created == [w EXCEPT !.notes = Append(@, row)]
    IN  IF send_email THEN SendEmailNotification(created, k, smtp) ELSE created

WriteNotifications(w) ==
    /\ notifications' = w.notes
    /\ preferences' = w.prefs
    /\ mails' = w.sent

CreateNotification(recipient, type, send_email, smtp) ==
    /\ Len(notifications) < MaxNotifications
    /\ WriteNotifications(
          CreateNotificationIn(NotifWorld(notifications, preferences, mails),
                               recipient, type, 0, send_email, smtp))
    /\ returned' = Len(notifications) + 1
    /\ UNCHANGED <<whVars, demVars, titVars, envVars>>

\* NotificationPreferenceView: get_or_create, then the flags of the body.
UpdatePreferences(u, body) ==
    /\ preferences' = [preferences EXCEPT ![u] = body]
    /\ UNCHANGED <<whVars, demVars, titVars, envVars, notifications, mails, returned>>

NextNotify ==
    \/ \E u \in Staff, type \in NotificationTypes, send_email \in BOOLEAN,
          smtp \in SmtpOutcomes : CreateNotification(u, type, send_email, smtp)
    \/ \E u \in Staff, body \in PreferenceBodies : UpdatePreferences(u, body)

SpecNotify == Init /\ [][NextNotify]_vars

(***************************************************************************)
(* Periodic jobs of the notification service.                              *)
(***************************************************************************)
\* check_expiring_titles: warning_days, in the order of the loop.
WarningDays == <<30, 15, 7, 1>>
\* check_expiring_titles: send_email=(days <= 7) for the staff.
UrgentDays == 7
\* User.objects.filter(profile__role__in=['admin', 'personnel']).
StaffUsers == <<"admin", "personnel">>
\* Days between the day a Titre is entered and its expiration.
ExpiryOffsets == {1, 2, 7, 15, 30}

\* A loop of create_notification over recipients.
RECURSIVE NotifyEach(_, _, _, _, _, _)
NotifyEach(w, recipients, type, days, send_email, smtp) ==
    IF recipients = <<>> THEN w
    ELSE NotifyEach(CreateNotificationIn(w, Head(recipients), type, days,
                                         send_email, smtp),
                    Tail(recipients), type, days, send_email, smtp)

\* check_expiring_titles, body of the loop over expiring_titles: the owner
\* with the default send_email=True, then each member of the staff.
WarnTitle(w, days, smtp) ==
    NotifyEach(CreateNotificationIn(w, "operateur", "expiration", days,
                                    TRUE, smtp),
               StaffUsers, "expiration", days, days <= UrgentDays, smtp)

\* Titre.objects.filter(date_expiration=target_date, status='approuve').
ExpiringTitles(days) ==
    SelectSeq([i \in 1..Len(titres) |-> i],
              LAMBDA i : /\ titres[i].date_expiration = today + days
                         /\ titres[i].status = "approuve")

RECURSIVE WarnTitles(_, _, _, _)
WarnTitles(w, ids, days, smtp) ==
    IF ids = <<>> THEN w
    ELSE WarnTitles(WarnTitle(w, days, smtp), Tail(ids), days, smtp)

RECURSIVE WarnTiers(_, _, _)
WarnTiers(w, tiers, smtp) ==
    IF tiers = <<>> THEN w
    ELSE WarnTiers(WarnTitles(w, ExpiringTitles(Head(tiers)), Head(tiers), smtp),
                   Tail(tiers), smtp)

\* tasks.check_expiring_titles -> NotificationService.check_expiring_titles.
CheckExpiringTitles(smtp) ==
    /\ Len(notifications) < MaxReminders
    /\ WriteNotifications(
          WarnTiers(NotifWorld(notifications, preferences, mails),
                    WarningDays, smtp))
    /\ UNCHANGED <<whVars, demVars, titVars, envVars, returned>>

NextExpiry ==
    \/ \E status \in {"approuve", "en_attente"}, d \in ExpiryOffsets :
          AdminAddTitre("licence_type_1", status, today + d)
    \/ DayTick
    \/ \E smtp \in SmtpOutcomes : CheckExpiringTitles(smtp)
    \/ \E u \in Users, body \in PreferenceBodies : UpdatePreferences(u, body)

SpecExpiry == Init /\ [][NextExpiry]_vars

\* Demande.is_overdue and check_overdue_requests: the 30 days of a Request.
OverdueDays == 30

\* Demande.days_since_submission.
DaysSinceSubmission(row, day) == day - row.date_soumission

\* Demande.is_overdue.
IsOverdue(row, day) ==
    /\ DaysSinceSubmission(row, day) > OverdueDays
    /\ row.status \in {"soumise", "en_examen"}

\* check_overdue_requests: overdue_date and the queryset
\* filter(date_soumission__lte=overdue_date, status__in=[...]).
OverdueRequests ==
    SelectSeq([i \in 1..Len(demandes) |-> i],
              LAMBDA i : /\ demandes[i].date_soumission <= today - OverdueDays
                         /\ demandes[i].status \in {"soumise", "en_examen"})

\* check_overdue_requests, loop over overdue_requests: a reminder with
\* days_overdue in its message for each member of the staff.
RECURSIVE RemindStaff(_, _, _)
RemindStaff(w, ids, smtp) ==
    IF ids = <<>> THEN w
    ELSE RemindStaff(NotifyEach(w, StaffUsers, "reminder",
                                DaysSinceSubmission(demandes[Head(ids)], today),
                                TRUE, smtp),
                     Tail(ids), smtp)

\* tasks.check_overdue_requests -> NotificationService.check_overdue_requests.
CheckOverdueRequests(smtp) ==
    /\ Len(notifications) < MaxReminders
    /\ WriteNotifications(
          RemindStaff(NotifWorld(notifications, preferences, mails),
                      OverdueRequests, smtp))
    /\ UNCHANGED <<whVars, demVars, titVars, envVars, returned>>

\* Thirty days go by without an operation.
MonthPasses ==
    /\ today < DaysPerYear - 1 + OverdueDays
    /\ today' = today + OverdueDays
    /\ UNCHANGED <<whVars, demandes, historique, titVars, envVars, notVars>>

NextOverdue ==
    \/ CreateDemande("licence_type_1")
    \/ \E i \in 1..MaxDemandes, s \in {"en_examen", "approuvee"} :
          UpdateStatus(i, s)
    \/ DayTick
    \/ MonthPasses
    \/ \E smtp \in SmtpOutcomes : CheckOverdueRequests(smtp)

SpecOverdue == Init /\ [][NextOverdue]_vars

(***************************************************************************)
(* Properties of the webhook delivery engine.                              *)
(***************************************************************************)
DeliveryIds == 1..MaxDeliveries
Stored(id) == id \in DOMAIN deliveries
\* The rows a step added to the WebhookDelivery table.
AddedIds == (Len(deliveries) + 1)..Len(deliveries')
PostsMade == { w \in WebhookIds : posts'[w] # posts[w] }
Settled(row) == row.status \in {"success", "failed"}
Retryable(row) == row.status = "failed" /\ row.attempts < row.max_attempts

\* C1: under fair scheduling of the sweep and of the clock, a delivery that
\* failed with attempts < max_attempts is selected and attempted again until
\* it succeeds or its attempts reach max_attempts.
C1_FailedIsEventuallyRetried ==
    \A id \in DeliveryIds :
        [](Stored(id) /\ Retryable(deliveries[id])
             => <>(Stored(id) /\ (\/ deliveries[id].status = "success"
                                  \/ deliveries[id].attempts >= deliveries[id].max_attempts
                                  \/ deliveries[id].status = "retry")))

\* C2: every attempt, be it an initial send, a sweep retry or a manual
\* re-trigger, raises the attempts field of the delivery it is made for by
\* exactly 1 and leaves one settled row holding its outcome.
C2_EveryAttemptCountsOnce ==
    [][ /\ \A id \in AddedIds : Settled(deliveries'[id])
        /\ (\E e \in Events : FireEvent(e)) \/ (\E w \in WebhookIds : TestWebhook(w))
              => \A id \in AddedIds : deliveries'[id].attempts = 1
        /\ RetrySweep
              => \A id \in DOMAIN deliveries :
                    (Retryable(deliveries[id]) /\ deliveries[id].next_retry # Null
                        /\ deliveries[id].next_retry <= now)
                    => deliveries'[id].attempts = deliveries[id].attempts + 1
        /\ \A id \in DeliveryIds :
              RetryWebhookDelivery(id) /\ PostsMade # {}
                 => deliveries'[id].attempts = deliveries[id].attempts + 1
      ]_vars

\* C3: the sweep selects exactly the failed rows with attempts < max_attempts
\* and next_retry <= now, and a row whose attempts have reached max_attempts
\* without a success is failed and is left alone by every sweep.
C3_SweepSelectsDueAndExhaustedStaysFailed ==
    [][ /\ RetrySweep
           => \A id \in DOMAIN deliveries :
                 (deliveries'[id] # deliveries[id])
                 <=> (/\ deliveries[id].status = "failed"
                      /\ deliveries[id].attempts < deliveries[id].max_attempts
                      /\ deliveries[id].next_retry # Null
                      /\ deliveries[id].next_retry <= now)
        /\ \A id \in DOMAIN deliveries' :
              (deliveries'[id].attempts >= deliveries'[id].max_attempts
                  /\ deliveries'[id].status # "success")
              => deliveries'[id].status = "failed"
      ]_vars

\* C4: a row does not stay pending or retry for ever: it reaches success or
\* failed.
C4_NoRowStaysPendingOrRetry ==
    \A id \in DeliveryIds :
        [](Stored(id) /\ deliveries[id].status \in {"pending", "retry"}
             => <>(Stored(id) /\ Settled(deliveries[id])))

\* C5: one row per (webhook, event occurrence): no two rows of the table
\* are for the same webhook and the same occurrence.
C5_OneRowPerOccurrence ==
    \A i, j \in DOMAIN deliveries :
        (deliveries[i].webhook = deliveries[j].webhook
            /\ deliveries[i].payload = deliveries[j].payload) => i = j

\* C6: a delivery that failed on attempt 1 is due for its retry 2 minutes
\* after that attempt (2^attempts minutes of backoff).
C6_FirstFailureRetriedAfterTwoMinutes ==
    \A id \in DOMAIN deliveries :
        (deliveries[id].status = "failed" /\ deliveries[id].attempts = 1)
        => deliveries[id].next_retry = deliveries[id].created_at + 2

\* C7: after a manual re-trigger of a row that is not a success, that row
\* carries the outcome of the new attempt: attempts = 1, status success or
\* failed.
C7_RetriggeredRowCarriesOutcome ==
    [][ \A id \in DeliveryIds :
          (RetryWebhookDelivery(id) /\ deliveries[id].status # "success")
          => (deliveries'[id].attempts = 1 /\ Settled(deliveries'[id]))
      ]_vars

\* The webhooks send_webhook(event, payload, only) has to attempt: active
\* (is_active and status = active), subscribed to event, and only itself
\* when a webhook id is given.
Expected(event, only) ==
    { w \in WebhookIds :
        /\ webhooks[w].is_active = TRUE
        /\ webhooks[w].status = "active"
        /\ event \in webhooks[w].events
        /\ (only = Null \/ w = only) }

FanOut(event, only, payload) ==
    /\ PostsMade = Expected(event, only)
    /\ \A w \in Expected(event, only) : posts'[w] = posts[w] + 1
    /\ Cardinality(AddedIds) = Cardinality(Expected(event, only))
    /\ \A w \in Expected(event, only) :
          \E id \in AddedIds :
             /\ deliveries'[id].webhook = w
             /\ deliveries'[id].event = event
             /\ deliveries'[id].payload = payload
             /\ deliveries'[id].attempts = 1
             /\ Settled(deliveries'[id])

\* C8: send_webhook makes one attempt for each active webhook subscribed to
\* the event (only the given one when a webhook id is passed) and for no
\* other, whatever the outcome of the attempts before it in the loop.
C8_SendWebhookAttemptsExactlyTheSelected ==
    [][ /\ \A e \in Events : FireEvent(e) => FanOut(e, Null, occurrences + 1)
        /\ \A w \in WebhookIds :
              TestWebhook(w) => FanOut("test.webhook", w, occurrences + 1)
        /\ \A id \in DeliveryIds :
              (RetryWebhookDelivery(id) /\ deliveries[id].status # "success")
              => FanOut(deliveries[id].event, deliveries[id].webhook,
                        deliveries[id].payload)
      ]_vars

\* An occurrence whose first attempt (webhook 2) died on a network error
\* and whose second (webhook 1) was delivered, while webhook 3, subscribed
\* but not active, got nothing.
C8_FailureThenDelivered ==
    \E i, j \in DOMAIN deliveries :
        /\ i < j
        /\ deliveries[i].payload = deliveries[j].payload
        /\ deliveries[i].webhook # deliveries[j].webhook
        /\ deliveries[i].response = NetErr
        /\ deliveries[j].status = "success"
        /\ deliveries[i].event \in webhooks[3].events
        /\ posts[3] = 0

\* C9: an attempt is a success iff the response is 2xx; a success adds 1 to
\* success_count and stamps delivered_at; anything else is failed and adds 1
\* to failure_count, http_status staying NULL on a network error; and
\* success_count + failure_count is the number of attempts made.
C9_OutcomeClassifiedAndCounted ==
    [][ /\ \A id \in AddedIds :
              LET row == deliveries'[id]
              IN  IF row.response \in 200..299
                  THEN /\ row.status = "success"
                       /\ row.http_status = row.response
                       /\ row.delivered_at = now
                  ELSE /\ row.status = "failed"
                       /\ row.delivered_at = Null
                       /\ row.http_status =
                             (IF row.response = NetErr THEN Null ELSE row.response)
        /\ \A w \in WebhookIds :
              /\ webhooks'[w].success_count - webhooks[w].success_count =
                    Cardinality({ id \in AddedIds :
                                    /\ deliveries'[id].webhook = w
                                    /\ deliveries'[id].response \in 200..299 })
              /\ webhooks'[w].failure_count - webhooks[w].failure_count =
                    Cardinality({ id \in AddedIds :
                                    /\ deliveries'[id].webhook = w
                                    /\ deliveries'[id].response \notin 200..299 })
              /\ webhooks'[w].success_count + webhooks'[w].failure_count = posts'[w]
      ]_vars

\* A webhook that has seen a 2xx, a non-2xx response and a network error.
C9_MixedOutcomes ==
    \E w \in WebhookIds :
        /\ webhooks[w].success_count = 1
        /\ webhooks[w].failure_count = 2
        /\ \E i, j, k \in DOMAIN deliveries :
              /\ deliveries[i].webhook = w /\ deliveries[i].response = 299
              /\ deliveries[j].webhook = w /\ deliveries[j].response = 300
              /\ deliveries[k].webhook = w /\ deliveries[k].response = NetErr
              /\ deliveries[k].http_status = Null

(***************************************************************************)
(* Properties of the Request lifecycle.                                    *)
(***************************************************************************)
\* C10: the status of a Request only moves soumise -> en_examen ->
\* approuvee or rejetee, and no operation changes it once it is approuvee or
\* rejetee.
C10_RequestStatusOnlyMovesForward ==
    [][ \A i \in DOMAIN demandes :
          demandes'[i].status # demandes[i].status
          => <<demandes[i].status, demandes'[i].status>> \in
                { <<"soumise", "en_examen">>,
                  <<"en_examen", "approuvee">>,
                  <<"en_examen", "rejetee">> }
      ]_vars

(***************************************************************************)
(* Properties of the lifecycles of Requests and Titles.                    *)
(***************************************************************************)
\* after is before with one more entry, from status old to status new.
AppendsOne(before, after, old, new) ==
    /\ Len(after) = Len(before) + 1
    /\ SubSeq(after, 1, Len(before)) = before
    /\ after[Len(after)].ancien_status = old
    /\ after[Len(after)].nouveau_status = new

\* C11: each status transition made by a lifecycle operation (the creation
\* of a Request, update_status; suspend, reactivate and renew of a Title)
\* appends exactly one history entry, with the status before and after.
C11_TransitionAppendsOneEntry ==
    [][ /\ CreateDemande("licence_type_1")
           => AppendsOne(historique, historique', "", "soumise")
        /\ \A i \in DOMAIN demandes, s \in DemandeStatuses :
              UpdateStatus(i, s) /\ s # demandes[i].status
              => AppendsOne(historique, historique', demandes[i].status, s)
        /\ \A i \in DOMAIN titres :
              /\ Suspend(i) \/ Reactivate(i) \/ Renew(i, 1)
              /\ titres'[i].status # titres[i].status
              => AppendsOne(historiqueTitre, historiqueTitre',
                            titres[i].status, titres'[i].status)
      ]_vars

\* C12: a side effect that fails (notification, e-mail, webhook, audit) is
\* never propagated to the caller: the save or transition that triggered it
\* completes, the new status is stored and its history entry recorded.
C12_SideEffectFailureNotPropagated ==
    [][ /\ titres' # titres \/ demandes' # demandes
           => outcome' # "AttributeError"
        /\ \A i \in DOMAIN titres :
              titres'[i].status # titres[i].status
              => Len(historiqueTitre') > Len(historiqueTitre)
        /\ \A i \in DOMAIN demandes, s \in DemandeStatuses :
              UpdateStatus(i, s) /\ s # demandes[i].status
              => /\ demandes'[i].status = s
                 /\ Len(historique') > Len(historique)
      ]_vars

\* C13: when a Title reaches approuve, by whatever operation, a fee record
\* of that Title for the current year exists afterwards, and no second one
\* is added for a Title and year that have one.
C13_ApprovedTitleHasFeeOfTheYear ==
    [][ /\ \A i \in DOMAIN titres' :
              /\ titres'[i].status = "approuve"
              /\ i \in DOMAIN titres => titres[i].status # "approuve"
              => HasRedevance(redevances', i, Year(today))
        /\ \A k, l \in DOMAIN redevances' :
              /\ redevances'[k].titre = redevances'[l].titre
              /\ redevances'[k].annee = redevances'[l].annee
              => k = l
      ]_vars

\* The step saved Title i: it created it, or wrote it through update,
\* suspend, reactivate or renew.
SavedTitre(i) ==
    \/ i \notin DOMAIN titres
    \/ \E st \in TitreStatuses : UpdateTitre(i, st)
    \/ (Suspend(i) \/ Reactivate(i)) /\ outcome' # "refused"
    \/ Renew(i, 1)

\* C14: is_expired is true exactly when today is after date_expiration,
\* whatever the stored status; after any save of a Title whose expiration
\* date has passed the stored status is expire, rejete included.
C14_SaveOfExpiredTitleStoresExpire ==
    [][ \A i \in DOMAIN titres' :
          /\ IsExpired(titres'[i], today) <=> today > titres'[i].date_expiration
          /\ SavedTitre(i) /\ today > titres'[i].date_expiration
             => titres'[i].status = "expire"
      ]_vars

\* A Title saved after its expiration date, stored as expire.
C14_ExpiredTitleSaved ==
    \E i \in DOMAIN titres :
        /\ today > titres[i].date_expiration
        /\ titres[i].status = "expire"
        /\ outcome \in {"ok", "AttributeError"}

\* C15: the status of a Title becomes expire as soon as its expiration date
\* has passed, without any save: every read of a Title past its date finds
\* the status expire.
C15_ExpiredAsSoonAsDatePasses ==
    \A i \in DOMAIN titres :
        today > titres[i].date_expiration => titres[i].status = "expire"

\* The status a transition to status leaves stored, given the rule of C14.
StoredAfter(i, status) ==
    IF today > titres[i].date_expiration THEN "expire" ELSE status

\* C16: suspend is accepted only for a Title in approuve and moves it to
\* rejete; reactivate is accepted only for a Title in rejete and moves it
\* to approuve; in any other status the action is refused with an error and
\* the Title and its history are unchanged.
C16_SuspendAndReactivateGuarded ==
    [][ \A i \in DOMAIN titres :
          /\ Suspend(i)
             => IF titres[i].status = "approuve"
                THEN titres'[i].status = StoredAfter(i, "rejete")
                ELSE outcome' = "refused" /\ UNCHANGED titVars
          /\ Reactivate(i)
             => IF titres[i].status = "rejete"
                THEN titres'[i].status = StoredAfter(i, "approuve")
                ELSE outcome' = "refused" /\ UNCHANGED titVars
      ]_vars

\* C17: date_traitement of a Request is set exactly when its status is
\* approuvee or rejetee.
C17_DateTraitementIffFinal ==
    \A i \in DOMAIN demandes :
        demandes[i].date_traitement # Null <=> demandes[i].status \in FinalStatuses

IsPrefix(a, b) == Len(a) <= Len(b) /\ SubSeq(b, 1, Len(a)) = a

\* C18: the history is append-only: no operation modifies or deletes an
\* entry, and the entries keep the order in which they were created.
C18_HistoryAppendOnly ==
    [][ /\ IsPrefix(historique, historique')
        /\ IsPrefix(historiqueTitre, historiqueTitre')
      ]_vars

(***************************************************************************)
(* Properties of the identifiers.                                          *)
(***************************************************************************)
\* The identifier {prefix-}{TYPECODE}-{YEAR}-{SEQ:04d} whose SEQ follows the
\* rows of the type created in the year.
ExpectedNumero(rows, prefix, type, day) ==
    LET prior == { j \in DOMAIN rows :
                     rows[j].type = type /\ rows[j].numero.year = Year(day) }
    IN  [prefix |-> prefix,
         code |-> IF type = "licence_type_1" THEN "LT1" ELSE "REC",
         year |-> Year(day),
         seq |-> <<0, 0, 0, Cardinality(prior) + 1>>]

\* C19: identifiers have the form {TYPECODE}-{YEAR}-{SEQ:04d}, with the
\* prefix DEM- for Requests; created one after the other, the entities of a
\* type within a year get SEQ 1, 2, 3, ... without gaps.
C19_IdentifiersSequential ==
    [][ /\ Len(demandes') = Len(demandes) + 1
           => LET new == demandes'[Len(demandes')]
              IN  new.numero = ExpectedNumero(demandes, "DEM", new.type, today)
        /\ Len(titres') = Len(titres) + 1
           => LET new == titres'[Len(titres')]
              IN  new.numero = ExpectedNumero(titres, "", new.type, today)
      ]_vars

\* Requests 0001 and 0002 of one type and year, and Titles of one type
\* numbered 0001 in two different years.
C19_SecondOfTheYearAndFirstOfTheNext ==
    /\ \E i, j \in DOMAIN demandes :
          /\ demandes[i].type = demandes[j].type
          /\ demandes[i].numero.year = demandes[j].numero.year
          /\ demandes[i].numero.seq = <<0, 0, 0, 1>>
          /\ demandes[j].numero.seq = <<0, 0, 0, 2>>
    /\ \E i, j \in DOMAIN titres :
          /\ titres[i].type = titres[j].type
          /\ titres[i].numero.year < titres[j].numero.year
          /\ titres[i].numero.seq = <<0, 0, 0, 1>>
          /\ titres[j].numero.seq = <<0, 0, 0, 1>>

UniqueNumeros(rows) ==
    \A i, j \in DOMAIN rows : rows[i].numero = rows[j].numero => i = j

\* C20: when concurrent creations compute the same sequence number, the
\* collision surfaces as an error to one of the callers and nothing is stored
\* for it; no two stored entities ever share an identifier.
C20_CollisionIsAnErrorAndNothingStored ==
    [][ /\ UniqueNumeros(titres') /\ UniqueNumeros(demandes')
        /\ \A p \in Workers :
              /\ inflight[p].kind = "titre" /\ inflight'[p] = Idle
              /\ \E i \in DOMAIN titres : titres[i].numero = inflight[p].numero
              => outcome' = "IntegrityError" /\ UNCHANGED titVars
        /\ \A p \in Workers :
              /\ inflight[p].kind = "demande" /\ inflight'[p] = Idle
              /\ \E i \in DOMAIN demandes : demandes[i].numero = inflight[p].numero
              => outcome' = "IntegrityError" /\ UNCHANGED <<demandes, historique>>
      ]_vars

\* Two creations computed the same identifier: one is stored, the other
\* ended with the error of the unique constraint.
C20_CollisionRejected ==
    /\ outcome = "IntegrityError"
    /\ \A p \in Workers : inflight[p] = Idle
    /\ Len(titres) + Len(demandes) = 1

(***************************************************************************)
(* Properties of the fee records and of renewal.                           *)
(***************************************************************************)
RecordsOf(red, i, annee) ==
    { k \in DOMAIN red : red[k].titre = i /\ red[k].annee = annee }

\* C21: generate_annual_fees(year) creates one fee record (amount: the
\* annual fee of the Title, due 31 December of the year) for each approved
\* Title that has no record of the year, and no other; run again for the
\* same year it creates none.
C21_AnnualFeesOncePerApprovedTitle ==
    [][ \A annee \in FeeYears :
          GenerateAnnualFees(annee)
          => /\ IsPrefix(redevances, redevances')
             /\ \A k \in DOMAIN redevances' \ DOMAIN redevances :
                   /\ redevances'[k].annee = annee
                   /\ redevances'[k].titre \in DOMAIN titres
                   /\ redevances'[k].montant =
                         titres[redevances'[k].titre].redevance_annuelle
                   /\ redevances'[k].date_echeance = (annee + 1) * DaysPerYear - 1
             /\ \A i \in DOMAIN titres :
                   Cardinality(RecordsOf(redevances', i, annee)) =
                      IF titres[i].status = "approuve"
                           /\ RecordsOf(redevances, i, annee) = {}
                      THEN 1
                      ELSE Cardinality(RecordsOf(redevances, i, annee))
             /\ GenerateFees(TitreWorld(titres', historiqueTitre', redevances'),
                             1, annee, today).red = redevances'
      ]_vars

\* Two Titles of different fees with their record of next year, which only
\* generate_annual_fees creates, next to a record of this year.
C21_FeesOfNextYearGenerated ==
    /\ Year(today) = 0
    /\ \E k, l \in DOMAIN redevances :
          /\ redevances[k].annee = 1 /\ redevances[l].annee = 1
          /\ redevances[k].montant = 500000 /\ redevances[l].montant = 50000
    /\ \E k \in DOMAIN redevances : redevances[k].annee = 0

\* C22: in every reachable state there is at most one fee record per
\* (title, year), also when generate_annual_fees runs concurrently with
\* itself or with the fee creation of a new approved Title.
C22_OneFeePerTitleAndYear ==
    \A k, l \in DOMAIN redevances :
        /\ redevances[k].titre = redevances[l].titre
        /\ redevances[k].annee = redevances[l].annee
        => k = l

\* Two workers found no record of a title and year; one created it and the
\* other ended with the error of the constraint.
C22_SecondInsertRejected ==
    /\ outcome = "IntegrityError"
    /\ \A p \in Workers : inflight[p] = Idle
    /\ redevances # <<>>

\* C23: renew(duree_ans) on a Title in any status sets date_emission to
\* today, date_expiration to today + duree_ans * 365 days, duree_ans to the
\* value given and status to approuve, and leaves the annual fee equal to the
\* fixed fee of the type of the Title (500000 for licence_type_1).
C23_RenewSetsDatesStatusAndFee ==
    [][ \A i \in DOMAIN titres, d \in Durations :
          Renew(i, d)
          => /\ titres'[i].date_emission = today
             /\ titres'[i].date_expiration = today + d * 365
             /\ titres'[i].duree_ans = d
             /\ titres'[i].status = "approuve"
             /\ titres'[i].redevance_annuelle =
                   IF titres[i].type = "licence_type_1" THEN 500000 ELSE 50000
             /\ titres'[i].type = titres[i].type
             /\ titres'[i].numero = titres[i].numero
      ]_vars

\* A Title of type licence_type_1 renewed for two years the day after its
\* expiration.
C23_RenewedForTwoYears ==
    \E i \in DOMAIN titres :
        /\ titres[i].type = "licence_type_1"
        /\ today = DaysPerYear
        /\ titres[i].date_emission = today
        /\ titres[i].date_expiration = today + 2 * DaysPerYear
        /\ titres[i].duree_ans = 2
        /\ titres[i].status = "approuve"
        /\ titres[i].redevance_annuelle = 500000

(***************************************************************************)
(* Properties of the notifications.                                        *)
(***************************************************************************)
\* C24: create_notification always creates exactly one Notification row for
\* the recipient and returns it, also when sending the e-mail fails: the
\* failure is caught and does not fail the call.
C24_OneRowReturnedWhateverTheMail ==
    [][ \A u \in Staff, type \in NotificationTypes, send_email \in BOOLEAN,
           smtp \in SmtpOutcomes :
          CreateNotification(u, type, send_email, smtp)
          => /\ Len(notifications') = Len(notifications) + 1
             /\ SubSeq(notifications', 1, Len(notifications)) = notifications
             /\ returned' = Len(notifications')
             /\ notifications'[returned'].recipient = u
             /\ notifications'[returned'].type = type
      ]_vars

\* A notification whose e-mail was wanted by the caller and by the
\* recipient and was not delivered.
C24_RowKeptWhenMailFailed ==
    \E k \in DOMAIN notifications :
        /\ returned = k
        /\ notifications[k].type = "reminder"
        /\ ~ notifications[k].is_sent_email
        /\ preferences[notifications[k].recipient] = DefaultPreference
        /\ ~ \E m \in DOMAIN mails : mails[m].notification = k

\* The preferences that count for a call: those stored, or the defaults
\* get_or_create stores when there are none.
PreferencesOf(u) ==
    IF preferences[u] = NoPreference THEN DefaultPreference ELSE preferences[u]

MailSent == Len(mails') > Len(mails)

SentFlagHasMail ==
    \A k \in DOMAIN notifications' :
        notifications'[k].is_sent_email
        => \E m \in DOMAIN mails' : mails'[m].notification = k

NewNotifications ==
    { k \in DOMAIN notifications' : k \notin DOMAIN notifications }

Mailed(k) == \E m \in DOMAIN mails' : mails'[m].notification = k

\* C26: check_expiring_titles warns only for approved Titles that expire in
\* exactly 30, 15, 7 or 1 days, and e-mails are sent only for the 7-day and
\* 1-day tiers: no recipient, owner or staff, is e-mailed for 30 or 15 days.
C26_MailsOnlyForUrgentTiers ==
    [][ \A smtp \in SmtpOutcomes :
          CheckExpiringTitles(smtp)
          => \A k \in NewNotifications :
                /\ notifications'[k].days \in {30, 15, 7, 1}
                /\ \E i \in DOMAIN titres :
                      /\ titres[i].status = "approuve"
                      /\ titres[i].date_expiration
                            = today + notifications'[k].days
                /\ Mailed(k) => notifications'[k].days <= UrgentDays
      ]_vars

\* C27: a Request is overdue iff more than 30 days have passed since its
\* submission and its status is soumise or en_examen; check_overdue_requests
\* creates reminders, one per staff user, for exactly the overdue Requests,
\* so a Request submitted exactly 30 days ago gets none.
C27_RemindersExactlyForOverdue ==
    [][ \A smtp \in SmtpOutcomes :
          CheckOverdueRequests(smtp)
          => LET overdue == { i \in DOMAIN demandes :
                                 IsOverdue(demandes[i], today) }
             IN  /\ Cardinality(NewNotifications)
                       = Cardinality(Staff) * Cardinality(overdue)
                 /\ \A k \in NewNotifications :
                       /\ notifications'[k].type = "reminder"
                       /\ \E i \in overdue :
                             DaysSinceSubmission(demandes[i], today)
                                = notifications'[k].days
      ]_vars

\* The pieces a byte of a received body can be changed to.
BodyAlphabet == {"{", "}", ",", ":", " ", "event", "x"}

\* C28: for a webhook with a signing secret, the X-Webhook-Signature header
\* of a delivery equals HMAC-SHA256(secret, body) over exactly the bytes sent
\* as the request body: the receiver that recomputes the HMAC over the body
\* it received accepts it, and a change of one byte of the body invalidates
\* the signature.
C28_SignatureIsOverTheBodySent ==
    \A id \in DOMAIN deliveries :
        LET request == deliveries[id].request
            secret == webhooks[deliveries[id].webhook].secret
        IN  request # NoRequest /\ secret # ""
            => /\ request.signature = HmacSha256(secret, request.body)
               /\ ValidateWebhookSignature(request.body, request.signature, secret)
               /\ \A k \in DOMAIN request.body :
                     \A b \in BodyAlphabet \ {request.body[k]} :
                        ~ ValidateWebhookSignature(
                             [request.body EXCEPT ![k] = b],
                             request.signature, secret)

\* C29: overlapping retry sweeps are not mutually excluded.  Every sweep
\* performs a delivery attempt of its own (one more POST to the webhook, one
\* more WebhookDelivery row) for each delivery its query selected, whatever
\* another sweep has done to that delivery in the meantime; the witness is the
\* interleaving in which two sweeps selected the same failed delivery and
\* each attempted it.
C29_EachSweepAttemptsWhatItSelected ==
    [][ \A p \in Workers :
          SweepRetry(p)
          => LET id == Head(inflight[p].ids)
                 w == inflight[p].rows[id].webhook
             IN  /\ posts'[w] = posts[w] + 1
                 /\ Len(deliveries') = Len(deliveries) + 1
                 /\ deliveries'[Len(deliveries')].webhook = w
                 /\ deliveries'[id].attempts = inflight[p].rows[id].attempts + 1
      ]_vars

\* Both sweeps have retried the same delivery: two POSTs and two new rows
\* for it, and the attempts column counts one retry.
C29_TwoSweepsRetriedTheSameDelivery ==
    \E id \in DOMAIN deliveries :
        /\ \A p \in Workers :
              /\ inflight[p].kind = "retry_failed_deliveries"
              /\ id \in inflight[p].retried
        /\ posts[deliveries[id].webhook] = 3
        /\ Len(deliveries) = 3
        /\ \A p \in Workers :
              deliveries[id].attempts = inflight[p].rows[id].attempts + 1

\* C30: when an existing Request is saved with the status approved the
\* webhook event dispatched is demande.approved, with the status rejected it
\* is demande.rejected, and demande.updated otherwise; webhook 2, subscribed
\* to demande.approved only, receives a delivery whenever a Request is
\* approved.
C30_ApprovalDispatchesDemandeApproved ==
    [][ \A i \in 1..MaxDemandes, s \in DemandeStatuses :
          UpdateStatus(i, s)
          => /\ \A id \in AddedIds :
                   deliveries'[id].event =
                      IF s = "approuvee" THEN "demande.approved"
                      ELSE IF s = "rejetee" THEN "demande.rejected"
                      ELSE "demande.updated"
             /\ s = "approuvee" => posts'[2] = posts[2] + 1
      ]_vars

====
